---- MODULE Spec2Model ----
(***************************************************************************)
(* A model of lib/protocol/MiotDevice.js: the property cache of one        *)
(* MiotDevice, its transport handle (miioDevice) and the asynchronous      *)
(* calls it has in flight on the transport.  Every method of the class is  *)
(* one action; the .then/.catch handlers of a transport call are actions   *)
(* of their own, taken when the transport completes the call.              *)
(***************************************************************************)
EXTENDS Integers, Sequences, FiniteSets, TLC

(* ---------------------------- bounds ---------------------------------- *)

\* Largest value a caller or the device supplies for a numeric property.
MaxVal == 3

\* Transport calls that may be outstanding at the same time.
MaxInFlight == 2

\* Transport handles handed to updateMiioDevice over a run.
MaxHandles == 2

(* ------------------------- the device schema -------------------------- *)

\* `undefined`: no transport handle / a response slot without a value.
Undefined == -1

\* The property argument of setProperty, sendCommnd, requestProperty when
\* the caller passes null/undefined instead of a MiotProperty.
NoProp == "null"

\* The properties initDeviceProperties registers, in registration order
\* (Object.keys order): power is read-write, buzzer is write-only,
\* fan_level is read-write with the value range [1, 2].
PropNames == <<"power", "buzzer", "fan_level">>

PropSet == {PropNames[i] : i \in 1..Len(PropNames)}

\* A name no property was registered under.
UnknownName == "unknown"

isReadable(p) == p \in {"power", "fan_level"}

getValueRange(p) == IF p = "fan_level" THEN <<1, 2>> ELSE <<>>

PropSiid(p) == 2

PropPiid(p) == CASE p = "power" -> 1 [] p = "buzzer" -> 2 [] OTHER -> 3

\* Values a caller passes, or the device reports, for property p.
PropVals(p) == IF p = "fan_level" THEN 0..MaxVal ELSE {0, 1}

\* The properties the callers write (buzzer is driven by sendCommnd), and
\* the values the device may report without a status error.
WrittenProps == {"power", "fan_level"}

DeviceVals(p) == PropVals(p)

\* MiotProperty.getReadProtocolObjForDid / getWriteProtocolObjForDid.
getReadProtocolObjForDid(p, did) ==
  [did |-> did, siid |-> PropSiid(p), piid |-> PropPiid(p), value |-> Undefined]

getWriteProtocolObjForDid(p, did, v) ==
  [did |-> did, siid |-> PropSiid(p), piid |-> PropPiid(p), value |-> v]

\* MiotProperty.setValue: overwrites the cached value unconditionally.
Property_setValue(val, p, v) == [val EXCEPT ![p] = v]

\* this.deviceId when the configuration gives none, and the id a handle
\* reports (miioDevice.id without its "miio:" prefix).
NoDid == 0

HandleDid(h) == 700

(* ------------------------------ state --------------------------------- *)

VARIABLES
  properties,   \* this.properties: the registered names, in key order
  value,        \* the cached value of each property (MiotProperty.value)
  miioDevice,   \* this.miioDevice: Undefined or the handle held
  deviceId,     \* this.deviceId
  created,      \* handles created so far (the next handle is created + 1)
  destroyed,    \* handles on which destroy() was called
  setupRuns,    \* how many times setupDevice ran
  inflight,     \* transport calls issued and not yet completed, oldest first
  last          \* what the last step did (history, read by the properties)

vars == <<properties, value, miioDevice, deviceId, created, destroyed,
          setupRuns, inflight, last>>

\* The record of a step: the method or handler that ran (op), the promise it
\* returned or settled (outcome, error), the transport calls (ncalls) and
\* setProperty invocations (writes) it made, the property-updated events it
\* emitted (emits) and the setup steps it ran (setup).  A write records its
\* property and the value handed to it (prop, value; raw: the value
\* setPropertyValue was given); a handler records the property of its call,
\* the length of the result array (n) and the status code of a write's
\* response item (code); addProperty records the ids it was given (siid,
\* piid); a handler of the accessory records the Device methods it invoked
\* (device), what it returned (ret) and the switch states it pushed to
\* the host platform (pushed: <<service, option value, on>>).
NoStep ==
  [op |-> "constructor", prop |-> NoProp, raw |-> Undefined,
   value |-> Undefined, outcome |-> "none", error |-> "", ncalls |-> 0,
   writes |-> 0, emits |-> <<>>, setup |-> <<>>, n |-> 0, code |-> 0,
   siid |-> Undefined, piid |-> Undefined, device |-> <<>>, ret |-> Undefined,
   pushed |-> {}]

(* ------------------------------ INFO ---------------------------------- *)

isConnected == miioDevice # Undefined

hasProperty(name) == \E i \in 1..Len(properties) : properties[i] = name

\* getProperty: the MiotProperty registered under name, or null.
getProperty(name) == IF hasProperty(name) THEN name ELSE NoProp

\* getPropertyValue: prop.getValue(), the cached value, or undefined.
getPropertyValue(name) ==
  IF getProperty(name) # NoProp THEN value[name] ELSE Undefined

\* getSafePropertyValue: prop.getSafeValue(), the cached value or 0 when it
\* is undefined; 0 for a name that is not registered.
getSafePropertyValue(name) ==
  IF getProperty(name) # NoProp
  THEN (IF value[name] = Undefined THEN 0 ELSE value[name])
  ELSE 0

\* Object.keys(getAllReadableProps()): the readable names in key order.
getAllReadableProps == SelectSeq(properties, isReadable)

(* ----------------------------- PROTOCOL ------------------------------- *)

\* A transport call this.miioDevice.call(cmd, params) that is in flight.
\*   op      the method that issued it
\*   params  the request items, each {did, siid, piid[, value]}
\*   prop    the property a single read, write or command is about
\*   keys    readablePropKeys captured by requestAllProperties
\*   initial issued by doInitialPropertiesFetch
Call(op, cmd, params, p, keys, initial) ==
  [op |-> op, cmd |-> cmd, params |-> params, prop |-> p, keys |-> keys,
   initial |-> initial]

\* requestAllProperties, connected: the batched read it puts on the wire.
requestAllPropertiesCall(did, initial) ==
  LET keys == getAllReadableProps IN
  Call("requestAllProperties", "get_properties",
       [i \in 1..Len(keys) |-> getReadProtocolObjForDid(keys[i], did)],
       NoProp, keys, initial)

\* createErrorPromise(msg): new Promise(reject).catch(log): the rejection is
\* caught by the helper's own catch, so the promise it returns is fulfilled
\* (with undefined) and the error is only logged.
createErrorPromise(msg) == [outcome |-> "resolved", error |-> msg]

\* The promise pollProperties returns when disconnected: rejected, no catch.
pollProperties_notConnected ==
  [outcome |-> "rejected", error |-> "Device not connected"]

Remove(s, i) == [j \in 1..(Len(s) - 1) |-> IF j < i THEN s[j] ELSE s[j + 1]]

(* ------------------------------- Init --------------------------------- *)

\* The state the constructor leaves when it is given no miio device: the
\* schema registered by initDevice, every cached value at its zero value,
\* no handle, no device id configured.
Init ==
  /\ properties = PropNames
  /\ value = [p \in PropSet |-> 0]
  /\ miioDevice = Undefined
  /\ deviceId = NoDid
  /\ created = 0
  /\ destroyed = {}
  /\ setupRuns = 0
  /\ inflight = <<>>
  /\ last = NoStep

(* ------------------------- SETUP, DEVICE CONTROL ---------------------- *)

\* A setup that issues the initial fetch before it resolves the device id:
\* the request is addressed with the id held at the call.
setupDevice_fetchBeforeDid(h) ==
  LET did == IF deviceId = NoDid THEN HandleDid(h) ELSE deviceId IN
  /\ deviceId' = did
  /\ setupRuns' = setupRuns + 1
  /\ inflight' = Append(inflight,
                   requestAllPropertiesCall(deviceId, TRUE))
  /\ last' = [NoStep EXCEPT !.op = "updateMiioDevice", !.ncalls = 1,
                !.setup = <<"doInitialPropertiesFetch", "deviceId",
                            "deviceSpecificSetup">>]

\* setupDevice on the handle h just stored: fetchDeviceInfo does nothing
\* (deviceInfo is {} and truthy), the device id is taken from the handle if
\* none is configured, checkDid only warns, deviceSpecificSetup is the empty
\* hook, and doInitialPropertiesFetch issues requestAllProperties with its
\* own then/catch; setup returns without waiting for it.
setupDevice(h) ==
  LET did == IF deviceId = NoDid THEN HandleDid(h) ELSE deviceId IN
  /\ deviceId' = did
  /\ setupRuns' = setupRuns + 1
  /\ inflight' = Append(inflight,
                   requestAllPropertiesCall(did, TRUE))
  /\ last' = [NoStep EXCEPT !.op = "updateMiioDevice", !.ncalls = 1,
                !.setup = <<"deviceId", "deviceSpecificSetup",
                            "doInitialPropertiesFetch">>]

\* updateMiioDevice(newMiioDevice), newMiioDevice a fresh handle: setup runs
\* whenever this.miioDevice is falsy at the call, else the handle is replaced.
updateMiioDevice ==
  /\ created < MaxHandles
  /\ created' = created + 1
  /\ miioDevice' = created + 1
  /\ IF ~isConnected
     THEN /\ Len(inflight) < MaxInFlight
          /\ setupDevice(created + 1)
     ELSE /\ last' = [NoStep EXCEPT !.op = "updateMiioDevice"]
          /\ UNCHANGED <<deviceId, setupRuns, inflight>>
  /\ UNCHANGED <<properties, value, destroyed>>

\* A teardown that destroys the handle and keeps the reference to it.
disconnectAndDestroyMiioDevice_keepsHandle ==
  /\ destroyed' = IF isConnected THEN destroyed \cup {miioDevice} ELSE destroyed
  /\ last' = [NoStep EXCEPT !.op = "disconnectAndDestroyMiioDevice"]
  /\ UNCHANGED <<properties, value, miioDevice, deviceId, created, setupRuns,
                 inflight>>

disconnectAndDestroyMiioDevice ==
  /\ destroyed' = IF isConnected THEN destroyed \cup {miioDevice} ELSE destroyed
  /\ miioDevice' = Undefined
  /\ last' = [NoStep EXCEPT !.op = "disconnectAndDestroyMiioDevice"]
  /\ UNCHANGED <<properties, value, deviceId, created, setupRuns, inflight>>

(* --------------------------- issuing calls ---------------------------- *)

\* requestAllProperties() as entered through opname; notConnected is the
\* promise returned when there is no handle.
requestAllPropertiesFrom(opname, notConnected) ==
  /\ IF isConnected
     THEN /\ Len(inflight) < MaxInFlight
          /\ inflight' = Append(inflight,
                           requestAllPropertiesCall(deviceId, FALSE))
          /\ last' = [NoStep EXCEPT !.op = opname, !.outcome = "pending",
                        !.ncalls = 1]
     ELSE /\ inflight' = inflight
          /\ last' = [NoStep EXCEPT !.op = opname,
                        !.outcome = notConnected.outcome,
                        !.error = notConnected.error]
  /\ UNCHANGED <<properties, value, miioDevice, deviceId, created, destroyed,
                 setupRuns>>

requestAllProperties ==
  requestAllPropertiesFrom("requestAllProperties",
    createErrorPromise("Cannot poll all properties! Device not connected!"))

\* A pollProperties that delegates without its own connectivity guard.
pollProperties_unguarded ==
  requestAllPropertiesFrom("pollProperties",
    createErrorPromise("Cannot poll all properties! Device not connected!"))

\* pollProperties(): requestAllProperties() if connected, else a rejection.
pollProperties ==
  requestAllPropertiesFrom("pollProperties",
    pollProperties_notConnected)

\* setProperty(prop, value) with the step records of its two ways out:
\* issued (the call went to the transport) and failed (createErrorPromise).
setPropertyFrom(issued, failed, p, v) ==
  /\ IF p # NoProp
     THEN IF isConnected
          THEN /\ Len(inflight) < MaxInFlight
               /\ inflight' = Append(inflight,
                    Call("setProperty", "set_properties",
                         <<getWriteProtocolObjForDid(p, deviceId, v)>>,
                         p, <<>>, FALSE))
               /\ last' = [issued EXCEPT !.outcome = "pending", !.ncalls = 1,
                             !.writes = 1]
          ELSE /\ inflight' = inflight
               /\ last' = [failed EXCEPT !.writes = 1,
                             !.outcome = createErrorPromise("").outcome,
                             !.error = "Cannot set property! Device not connected!"]
     ELSE /\ inflight' = inflight
          /\ last' = [failed EXCEPT !.writes = 1,
                        !.outcome = createErrorPromise("").outcome,
                        !.error = "Missing property! Cannot set the value!"]
  /\ UNCHANGED <<properties, value, miioDevice, deviceId, created, destroyed,
                 setupRuns>>

setProperty ==
  \E p \in WrittenProps \cup {NoProp} :
    \E v \in (IF p = NoProp THEN {0} ELSE PropVals(p)) :
      setPropertyFrom(
        [NoStep EXCEPT !.op = "setProperty", !.prop = p, !.raw = v, !.value = v],
        [NoStep EXCEPT !.op = "setProperty"], p, v)

\* A setPropertyValue that compares against the range and never adjusts.
clampToRange_unclamped(p, v) == v

\* setPropertyValue, lines 311-322: the value clamped into the value range.
clampToRange(p, v) ==
  LET propRange == getValueRange(p) IN
  IF Len(propRange) > 1
  THEN IF v > propRange[2] THEN propRange[2]
       ELSE IF v < propRange[1] THEN propRange[1] ELSE v
  ELSE v

\* A setPropertyValue without the compare-with-cache guard.
needsWrite_always(p, v) == TRUE

\* setPropertyValue, line 323: prop.getValue() !== value.
needsWrite(p, v) == value[p] # v

setPropertyValue ==
  \E name \in WrittenProps \cup {UnknownName} :
    \E raw \in PropVals(name) :
      LET prop == getProperty(name) IN
      IF prop # NoProp
      THEN LET v == clampToRange(prop, raw)
               step == [NoStep EXCEPT !.op = "setPropertyValue", !.prop = prop,
                          !.raw = raw, !.value = v]
           IN IF needsWrite(prop, v)
              THEN setPropertyFrom(step, step, prop, v)
              ELSE /\ last' = step
                   /\ UNCHANGED <<properties, value, miioDevice, deviceId, created,
                                  destroyed, setupRuns, inflight>>
      ELSE /\ last' = [NoStep EXCEPT !.op = "setPropertyValue"]
           /\ UNCHANGED <<properties, value, miioDevice, deviceId, created,
                          destroyed, setupRuns, inflight>>

\* sendCommnd(prop, value): an action invocation, sent as set_properties.
sendCommnd ==
  \E p \in {"buzzer", NoProp} :
    \E v \in {1} :
      /\ IF p # NoProp
         THEN IF isConnected
              THEN /\ Len(inflight) < MaxInFlight
                   /\ inflight' = Append(inflight,
                        Call("sendCommnd", "set_properties",
                             <<getWriteProtocolObjForDid(p, deviceId, v)>>,
                             p, <<>>, FALSE))
                   /\ last' = [NoStep EXCEPT !.op = "sendCommnd", !.prop = p,
                                 !.value = v, !.outcome = "pending", !.ncalls = 1]
              ELSE /\ inflight' = inflight
                   /\ last' = [NoStep EXCEPT !.op = "sendCommnd",
                                 !.outcome = createErrorPromise("").outcome,
                                 !.error = "Cannot execute command! Device not connected!"]
         ELSE /\ inflight' = inflight
              /\ last' = [NoStep EXCEPT !.op = "sendCommnd",
                            !.outcome = createErrorPromise("").outcome,
                            !.error = "Missing property! Cannot execute the command!"]
      /\ UNCHANGED <<properties, value, miioDevice, deviceId, created, destroyed,
                     setupRuns>>

\* requestProperty(prop): a single read.
requestProperty ==
  \E p \in {"fan_level", "buzzer", NoProp} :
    /\ IF p # NoProp
       THEN IF isConnected
            THEN IF isReadable(p)
                 THEN /\ Len(inflight) < MaxInFlight
                      /\ inflight' = Append(inflight,
                           Call("requestProperty", "get_properties",
                                <<getReadProtocolObjForDid(p, deviceId)>>,
                                p, <<p>>, FALSE))
                      /\ last' = [NoStep EXCEPT !.op = "requestProperty",
                                    !.prop = p, !.outcome = "pending", !.ncalls = 1]
                 ELSE /\ inflight' = inflight
                      /\ last' = [NoStep EXCEPT !.op = "requestProperty",
                                    !.outcome = createErrorPromise("").outcome,
                                    !.error = "Cannot update property! Property is write only!"]
            ELSE /\ inflight' = inflight
                 /\ last' = [NoStep EXCEPT !.op = "requestProperty",
                               !.outcome = createErrorPromise("").outcome,
                               !.error = "Cannot update property! Device not connected!"]
       ELSE /\ inflight' = inflight
            /\ last' = [NoStep EXCEPT !.op = "requestProperty",
                          !.outcome = createErrorPromise("").outcome,
                          !.error = "Missing property! Cannot execute read request!"]
    /\ UNCHANGED <<properties, value, miioDevice, deviceId, created, destroyed,
                   setupRuns>>

(* ----------------------- the device's responses --------------------- *)

\* Status codes of a response item: 0 is success.
Codes == {0, -4001}

\* What the device may answer for one requested property: a success with a
\* value (or without one), or an error code.
SlotsFor(p) ==
  {[code |-> 0, value |-> v] : v \in DeviceVals(p)}
    \cup {[code |-> c, value |-> Undefined] : c \in Codes \ {0}}

\* A response item beyond the items requested.
ExtraSlots ==
  {[code |-> 0, value |-> 0]} \cup {[code |-> c, value |-> Undefined] : c \in Codes \ {0}}

AllSlots == UNION {SlotsFor(p) : p \in PropSet} \cup ExtraSlots

\* The result arrays the transport may resolve a read of `keys` with:
\* shorter than, as long as, or one longer than the request.
Responses(keys) ==
  UNION {{r \in [1..n -> AllSlots] :
            \A i \in 1..n : r[i] \in (IF i <= Len(keys) THEN SlotsFor(keys[i])
                                      ELSE ExtraSlots)}
         : n \in 0..(Len(keys) + 1)}

\* A response item that reports success and carries no value.
UndefinedSlot == [code |-> 0, value |-> Undefined]

(* ------------------------ completion handlers ------------------------- *)

\* updatePropertyValueFromDevice(result, propName, returnObj) applied to the
\* accumulator acc = [val: the cache, res: the result object, thrown].
\* getProperty(propName) is null for a propName that is no registered name
\* (readablePropKeys[i] beyond its length is undefined): setValue on it throws.
\* The _anyCode variant stores the slot's value without looking at its code.
updatePropertyValueFromDevice_anyCode(acc, propName, returnObj) ==
  IF getProperty(propName) = NoProp
  THEN [acc EXCEPT !.thrown = TRUE]
  ELSE [acc EXCEPT !.val = Property_setValue(acc.val, propName, returnObj.value),
                   !.res = {e \in acc.res : e[1] # propName}
                             \cup {<<propName, returnObj.value>>}]

updatePropertyValueFromDevice(acc, propName, returnObj) ==
  IF returnObj.code = 0
  THEN IF getProperty(propName) = NoProp
       THEN [acc EXCEPT !.thrown = TRUE]
       ELSE [acc EXCEPT !.val = Property_setValue(acc.val, propName, returnObj.value),
                        !.res = {e \in acc.res : e[1] # propName}
                                  \cup {<<propName, returnObj.value>>}]
  ELSE acc

\* requestAllProperties, lines 406-408: the loop over the result array from
\* index i on; it stops at the first throw.
RECURSIVE applyResult(_, _, _, _)
applyResult(acc, keys, result, i) ==
  IF i > Len(result) \/ acc.thrown
  THEN acc
  ELSE applyResult(
         updatePropertyValueFromDevice(acc,
           IF i <= Len(keys) THEN keys[i] ELSE NoProp, result[i]),
         keys, result, i + 1)

\* requestAllProperties, the then handler of the call inflight[i].  A throw
\* inside it rejects the returned promise; requestAllProperties has no catch.
\* The promise of the initial fetch goes on to the then or the catch handler
\* of doInitialPropertiesFetch, which only log.
requestAllProperties_then(i) ==
  /\ inflight[i].op = "requestAllProperties"
  /\ \E result \in Responses(inflight[i].keys) :
       LET c == inflight[i]
           acc == applyResult([val |-> value, res |-> {}, thrown |-> FALSE],
                              c.keys, result, 1)
       IN /\ value' = acc.val
          /\ last' = [NoStep EXCEPT
               !.op = IF ~c.initial THEN "requestAllProperties.then"
                      ELSE IF acc.thrown THEN "doInitialPropertiesFetch.catch"
                      ELSE "doInitialPropertiesFetch.then",
               !.n = Len(result),
               !.outcome = IF acc.thrown /\ ~c.initial THEN "rejected" ELSE "resolved",
               !.error = IF acc.thrown THEN "TypeError" ELSE ""]
  /\ inflight' = Remove(inflight, i)
  /\ UNCHANGED <<properties, miioDevice, deviceId, created, destroyed, setupRuns>>

\* An initial fetch without a catch: its rejection reaches the caller.
requestAllProperties_rejected_unhandled(i) ==
  /\ inflight[i].op = "requestAllProperties"
  /\ last' = [NoStep EXCEPT
       !.op = IF inflight[i].initial THEN "doInitialPropertiesFetch.catch"
              ELSE "requestAllProperties.rejected",
       !.outcome = "rejected",
       !.error = "transport"]
  /\ inflight' = Remove(inflight, i)
  /\ UNCHANGED <<properties, value, miioDevice, deviceId, created, destroyed,
                 setupRuns>>

\* The transport rejects the call inflight[i] of requestAllProperties: the
\* returned promise is rejected; doInitialPropertiesFetch catches its own.
requestAllProperties_rejected(i) ==
  /\ inflight[i].op = "requestAllProperties"
  /\ last' = [NoStep EXCEPT
       !.op = IF inflight[i].initial THEN "doInitialPropertiesFetch.catch"
              ELSE "requestAllProperties.rejected",
       !.outcome = IF inflight[i].initial THEN "resolved" ELSE "rejected",
       !.error = "transport"]
  /\ inflight' = Remove(inflight, i)
  /\ UNCHANGED <<properties, value, miioDevice, deviceId, created, destroyed,
                 setupRuns>>

\* A then handler that notifies without storing the value.
setProperty_thenValue_notStored(val, p, v) == val

\* setProperty, lines 385-386: what the then handler stores and emits.
setProperty_thenValue(val, p, v) == Property_setValue(val, p, v)

setProperty_thenEmits(p) == <<p>>

\* setProperty, the then handler of the call inflight[i]; the result array
\* (one item with its status code) is only logged.
setProperty_then(i) ==
  /\ inflight[i].op = "setProperty"
  /\ \E code \in Codes :
       LET c == inflight[i] IN
       /\ value' = setProperty_thenValue(value, c.prop, c.params[1].value)
       /\ last' = [NoStep EXCEPT !.op = "setProperty.then", !.prop = c.prop,
                     !.value = c.params[1].value, !.outcome = "resolved",
                     !.emits = setProperty_thenEmits(c.prop), !.n = 1,
                     !.code = code]
  /\ inflight' = Remove(inflight, i)
  /\ UNCHANGED <<properties, miioDevice, deviceId, created, destroyed, setupRuns>>

\* A setProperty that stores the value although the call was rejected.
setProperty_catch_stores(i) ==
  /\ inflight[i].op = "setProperty"
  /\ value' = Property_setValue(value, inflight[i].prop, inflight[i].params[1].value)
  /\ last' = [NoStep EXCEPT !.op = "setProperty.catch", !.prop = inflight[i].prop,
                !.outcome = "resolved", !.error = "transport"]
  /\ inflight' = Remove(inflight, i)
  /\ UNCHANGED <<properties, miioDevice, deviceId, created, destroyed, setupRuns>>

\* setProperty, the catch handler: the transport rejected the call; it logs.
setProperty_catch(i) ==
  /\ inflight[i].op = "setProperty"
  /\ last' = [NoStep EXCEPT !.op = "setProperty.catch", !.prop = inflight[i].prop,
                !.outcome = "resolved", !.error = "transport"]
  /\ inflight' = Remove(inflight, i)
  /\ UNCHANGED <<properties, value, miioDevice, deviceId, created, destroyed,
                 setupRuns>>

\* A sendCommnd whose then handler stores the value like a write does.
sendCommnd_then_stores(i) ==
  /\ inflight[i].op = "sendCommnd"
  /\ \E code \in Codes :
       last' = [NoStep EXCEPT !.op = "sendCommnd.then", !.prop = inflight[i].prop,
                  !.outcome = "resolved", !.n = 1, !.code = code]
  /\ value' = Property_setValue(value, inflight[i].prop, inflight[i].params[1].value)
  /\ inflight' = Remove(inflight, i)
  /\ UNCHANGED <<properties, miioDevice, deviceId, created, destroyed, setupRuns>>

\* sendCommnd, the then and the catch handler: both only log.
sendCommnd_then(i) ==
  /\ inflight[i].op = "sendCommnd"
  /\ \E code \in Codes :
       last' = [NoStep EXCEPT !.op = "sendCommnd.then", !.prop = inflight[i].prop,
                  !.outcome = "resolved", !.n = 1, !.code = code]
  /\ inflight' = Remove(inflight, i)
  /\ UNCHANGED <<properties, value, miioDevice, deviceId, created, destroyed,
                 setupRuns>>

sendCommnd_catch(i) ==
  /\ inflight[i].op = "sendCommnd"
  /\ last' = [NoStep EXCEPT !.op = "sendCommnd.catch", !.prop = inflight[i].prop,
                !.outcome = "resolved", !.error = "transport"]
  /\ inflight' = Remove(inflight, i)
  /\ UNCHANGED <<properties, value, miioDevice, deviceId, created, destroyed,
                 setupRuns>>

\* requestProperty, the then handler: result[0] updates the property, the
\* event is emitted, the result object returned.  With an empty result array
\* result[0].code throws, and the method's own catch absorbs it.
requestProperty_then(i) ==
  /\ inflight[i].op = "requestProperty"
  /\ \E result \in Responses(inflight[i].keys) :
       LET c == inflight[i]
           acc == IF Len(result) = 0
                  THEN [val |-> value, res |-> {}, thrown |-> TRUE]
                  ELSE updatePropertyValueFromDevice(
                         [val |-> value, res |-> {}, thrown |-> FALSE],
                         c.prop, result[1])
       IN /\ value' = acc.val
          /\ last' = [NoStep EXCEPT !.op = "requestProperty.then", !.prop = c.prop,
                        !.n = Len(result), !.outcome = "resolved",
                        !.code = IF Len(result) = 0 THEN 0 ELSE result[1].code,
                        !.emits = IF acc.thrown THEN <<>> ELSE <<c.prop>>,
                        !.error = IF acc.thrown THEN "TypeError" ELSE ""]
  /\ inflight' = Remove(inflight, i)
  /\ UNCHANGED <<properties, miioDevice, deviceId, created, destroyed, setupRuns>>

requestProperty_catch(i) ==
  /\ inflight[i].op = "requestProperty"
  /\ last' = [NoStep EXCEPT !.op = "requestProperty.catch",
                !.prop = inflight[i].prop, !.outcome = "resolved",
                !.error = "transport"]
  /\ inflight' = Remove(inflight, i)
  /\ UNCHANGED <<properties, value, miioDevice, deviceId, created, destroyed,
                 setupRuns>>

\* The transport completes one of the calls in flight, in any order.
Complete ==
  \E i \in 1..Len(inflight) :
    \/ requestAllProperties_then(i)
    \/ requestAllProperties_rejected(i)
    \/ setProperty_then(i)
    \/ setProperty_catch(i)
    \/ sendCommnd_then(i)
    \/ sendCommnd_catch(i)
    \/ requestProperty_then(i)
    \/ requestProperty_catch(i)

Next ==
  \/ updateMiioDevice
  \/ disconnectAndDestroyMiioDevice
  \/ requestAllProperties
  \/ pollProperties
  \/ setProperty
  \/ setPropertyValue
  \/ sendCommnd
  \/ requestProperty
  \/ Complete

Spec == Init /\ [][Next]_vars

(* ------------------------------ METADATA ------------------------------ *)

\* The name argument of addProperty when the caller passes none.
NoName == ""

\* The ids a caller may pass for name: none, 0, or the ids of the schema.
SiidArgs(name) == {Undefined, 0, PropSiid(name)}

PiidArgs(name) == {Undefined, 0, PropPiid(name)}

\* this.properties[name] = newProp: a new key goes to the end of the key
\* order, an existing key keeps its place; the new MiotProperty starts with
\* the zero value.
registerProperty(name) ==
  /\ properties' = IF hasProperty(name) THEN properties
                   ELSE Append(properties, name)
  /\ value' = Property_setValue(value, name, 0)

\* An addProperty that checks the name only.
addProperty_noIdCheck ==
  \E name \in PropSet \cup {NoName} :
    \E siid \in SiidArgs(name), piid \in PiidArgs(name) :
      /\ IF name = NoName
         THEN /\ last' = [NoStep EXCEPT !.op = "addProperty", !.siid = siid,
                            !.piid = piid, !.error = "Missing name! Cannot create property!"]
              /\ UNCHANGED <<properties, value>>
         ELSE /\ registerProperty(name)
              /\ last' = [NoStep EXCEPT !.op = "addProperty", !.prop = name,
                            !.siid = siid, !.piid = piid]
      /\ UNCHANGED <<miioDevice, deviceId, created, destroyed, setupRuns, inflight>>

\* addProperty(name, siid, piid, ...): a falsy name, siid or piid is warned
\* about and nothing is registered.
addProperty ==
  \E name \in PropSet \cup {NoName} :
    \E siid \in SiidArgs(name), piid \in PiidArgs(name) :
      /\ IF name = NoName
         THEN /\ last' = [NoStep EXCEPT !.op = "addProperty", !.siid = siid,
                            !.piid = piid, !.error = "Missing name! Cannot create property!"]
              /\ UNCHANGED <<properties, value>>
         ELSE IF siid \in {Undefined, 0} \/ piid \in {Undefined, 0}
         THEN /\ last' = [NoStep EXCEPT !.op = "addProperty", !.prop = name,
                            !.siid = siid, !.piid = piid,
                            !.error = "Missing siid or piid! Cannot create!"]
              /\ UNCHANGED <<properties, value>>
         ELSE /\ registerProperty(name)
              /\ last' = [NoStep EXCEPT !.op = "addProperty", !.prop = name,
                            !.siid = siid, !.piid = piid]
      /\ UNCHANGED <<miioDevice, deviceId, created, destroyed, setupRuns, inflight>>

\* The constructor before initDeviceProperties has declared anything (the
\* hook of the base class declares nothing): an empty registry, which the
\* schema declaration then fills through addProperty.
InitRegistry ==
  /\ properties = <<>>
  /\ value = [p \in PropSet |-> 0]
  /\ miioDevice = Undefined
  /\ deviceId = NoDid
  /\ created = 0
  /\ destroyed = {}
  /\ setupRuns = 0
  /\ inflight = <<>>
  /\ last = NoStep

NextRegistry == addProperty

SpecRegistry == InitRegistry /\ [][NextRegistry]_vars

(* ------------------- BaseAccessory: state handlers -------------------- *)

\* isMiotDeviceConnected: the accessory holds its Device from construction.
isMiotDeviceConnected == isConnected

\* HAPStatus.SERVICE_COMMUNICATION_FAILURE, thrown as a HapStatusError.
SERVICE_COMMUNICATION_FAILURE == "SERVICE_COMMUNICATION_FAILURE"

\* Characteristic.LockPhysicalControls.
CONTROL_LOCK_DISABLED == 0

CONTROL_LOCK_ENABLED == 1

\* Arguments the host platform passes: an on/off state (false, true), a
\* brightness, and the values of the fan-level and mode switches.
OnOff == {0, 1}

BrightnessArgs == {0, 1}

fanLevels == {1, 2}

modes == {1}

\* The methods of the concrete device, which read and write the property
\* cache through getPropertyValue, getSafePropertyValue and
\* setPropertyValue.  The device of this model declares power, buzzer and
\* fan_level; led, power_off_time, mode, temperature, relative_humidity and
\* child_lock are names it does not declare.
isEnabled(name) == IF getPropertyValue(name) = 1 THEN 1 ELSE 0

isPowerOn == getPropertyValue("power") = 1

\* The transport calls Device.setPropertyValue(name, raw) issues: none for a
\* name that is not declared or a value that is the cached one.
setPropertyValueCalls(name, raw) ==
  LET prop == getProperty(name) IN
  IF prop = NoProp
  THEN <<>>
  ELSE LET v == clampToRange(prop, raw) IN
       IF needsWrite(prop, v) /\ isConnected
       THEN <<Call("setProperty", "set_properties",
                   <<getWriteProtocolObjForDid(prop, deviceId, v)>>,
                   prop, <<>>, FALSE)>>
       ELSE <<>>

\* turnOnIfNecessary: setPowerOn(true) unless the power is on.
turnOnIfNecessary ==
  IF isPowerOn THEN <<>> ELSE setPropertyValueCalls("power", 1)

\* A getter handler: if (this.isMiotDeviceConnected()) return <what the
\* Device says>; return <default>.
getterHandler(opname, deviceMethods, deviceValue, default) ==
  /\ last' = IF isMiotDeviceConnected
             THEN [NoStep EXCEPT !.op = opname, !.device = deviceMethods,
                     !.ret = deviceValue, !.outcome = "returned"]
             ELSE [NoStep EXCEPT !.op = opname, !.ret = default,
                     !.outcome = "returned"]
  /\ UNCHANGED <<properties, value, miioDevice, deviceId, created, destroyed,
                 setupRuns, inflight>>

\* A setter handler that calls the Device whether or not it is connected.
setterHandler_unguarded(opname, deviceMethods, calls) ==
  /\ Len(inflight) + Len(calls) <= MaxInFlight
  /\ inflight' = inflight \o calls
  /\ last' = [NoStep EXCEPT !.op = opname, !.device = deviceMethods,
                !.ncalls = Len(calls), !.outcome = "returned"]
  /\ UNCHANGED <<properties, value, miioDevice, deviceId, created, destroyed,
                 setupRuns>>

\* A setter handler: if (this.isMiotDeviceConnected()) <call the Device>;
\* else throw new HapStatusError(SERVICE_COMMUNICATION_FAILURE).
setterHandler(opname, deviceMethods, calls) ==
  /\ IF isMiotDeviceConnected
     THEN /\ Len(inflight) + Len(calls) <= MaxInFlight
          /\ inflight' = inflight \o calls
          /\ last' = [NoStep EXCEPT !.op = opname, !.device = deviceMethods,
                        !.ncalls = Len(calls), !.outcome = "returned"]
     ELSE /\ inflight' = inflight
          /\ last' = [NoStep EXCEPT !.op = opname, !.outcome = "thrown",
                        !.error = SERVICE_COMMUNICATION_FAILURE]
  /\ UNCHANGED <<properties, value, miioDevice, deviceId, created, destroyed,
                 setupRuns>>

isBuzzerOn ==
  getterHandler("isBuzzerOn", <<"isBuzzerEnabled">>, isEnabled("buzzer"), 0)

setBuzzerOn ==
  \E v \in OnOff :
    setterHandler("setBuzzerOn", <<"setBuzzerEnabled">>,
                  setPropertyValueCalls("buzzer", v))

isLedOn ==
  getterHandler("isLedOn", <<"isLedEnabled">>, isEnabled("led"), 0)

setLedOn ==
  \E v \in OnOff :
    setterHandler("setLedOn", <<"setLedEnabled">>,
                  setPropertyValueCalls("led", v))

getLedBrightness ==
  getterHandler("getLedBrightness", <<"getLedValue">>,
                getSafePropertyValue("led"), 0)

setLedBrightness ==
  \E v \in BrightnessArgs :
    setterHandler("setLedBrightness", <<"setLedValue">>,
                  setPropertyValueCalls("led", v))

isShutdownTimerOn ==
  getterHandler("isShutdownTimerOn", <<"isShutdownTimerEnabled">>,
                IF getSafePropertyValue("power_off_time") > 0 THEN 1 ELSE 0, 0)

\* Only disabling reaches the Device: enabling sets the timer to 100 %.
setShutdownTimerOn ==
  \E v \in OnOff :
    IF v = 0
    THEN setterHandler("setShutdownTimerOn", <<"setShutdownTimer">>,
                       setPropertyValueCalls("power_off_time", 0))
    ELSE setterHandler("setShutdownTimerOn", <<>>, <<>>)

getShutdownTimerBrightness ==
  LET t == getSafePropertyValue("power_off_time") IN
  getterHandler("getShutdownTimerBrightness", <<"getShutdownTimer">>,
                IF t < 100 THEN t ELSE 100, 0)

setShutdownTimerBrightness ==
  \E v \in BrightnessArgs :
    setterHandler("setShutdownTimerBrightness", <<"setShutdownTimer">>,
                  setPropertyValueCalls("power_off_time", v))

\* What isModeSwitchOn(mode) and isFanLevelSwitchOn(level) return:
\* isMiotDeviceConnected() && getDevice().isPowerOn(), then the comparison
\* with the Device's mode or fan level; false otherwise.
isModeSwitchOnValue(mode) ==
  IF isMiotDeviceConnected /\ isPowerOn
  THEN (IF getPropertyValue("mode") = mode THEN 1 ELSE 0)
  ELSE 0

isFanLevelSwitchOnValue(level) ==
  IF isMiotDeviceConnected /\ isPowerOn
  THEN (IF getPropertyValue("fan_level") = level THEN 1 ELSE 0)
  ELSE 0

isModeSwitchOn ==
  \E mode \in modes :
    IF isPowerOn
    THEN getterHandler("isModeSwitchOn", <<"isPowerOn", "getMode">>,
                       isModeSwitchOnValue(mode), 0)
    ELSE getterHandler("isModeSwitchOn", <<"isPowerOn">>, 0, 0)

\* The switches are refreshed by a timer the handler starts.
setModeSwitchOn ==
  \E state \in OnOff, mode \in modes :
    IF state = 1
    THEN setterHandler("setModeSwitchOn",
                       <<"turnOnIfNecessary", "setMode", "setTimeout">>,
                       turnOnIfNecessary \o setPropertyValueCalls("mode", mode))
    ELSE setterHandler("setModeSwitchOn", <<"setTimeout">>, <<>>)

isFanLevelSwitchOn ==
  \E level \in fanLevels :
    IF isPowerOn
    THEN getterHandler("isFanLevelSwitchOn", <<"isPowerOn", "getFanLevel">>,
                       isFanLevelSwitchOnValue(level), 0)
    ELSE getterHandler("isFanLevelSwitchOn", <<"isPowerOn">>, 0, 0)

setFanLevelSwitchOn ==
  \E state \in OnOff, level \in fanLevels :
    IF state = 1
    THEN setterHandler("setFanLevelSwitchOn",
                       <<"turnOnIfNecessary", "setFanLevel", "setTimeout">>,
                       turnOnIfNecessary \o setPropertyValueCalls("fan_level", level))
    ELSE setterHandler("setFanLevelSwitchOn", <<"setTimeout">>, <<>>)

getCurrentTemperature ==
  getterHandler("getCurrentTemperature", <<"getTemperature">>,
                getSafePropertyValue("temperature"), 0)

getCurrentRelativeHumidity ==
  getterHandler("getCurrentRelativeHumidity", <<"getRelativeHumidity">>,
                getSafePropertyValue("relative_humidity"), 0)

getLockPhysicalControlsState ==
  getterHandler("getLockPhysicalControlsState", <<"isChildLockActive">>,
                IF isEnabled("child_lock") = 1 THEN CONTROL_LOCK_ENABLED
                ELSE CONTROL_LOCK_DISABLED,
                CONTROL_LOCK_DISABLED)

setLockPhysicalControlsState ==
  \E state \in {CONTROL_LOCK_DISABLED, CONTROL_LOCK_ENABLED} :
    setterHandler("setLockPhysicalControlsState", <<"setChildLock">>,
                  setPropertyValueCalls("child_lock",
                    IF state = CONTROL_LOCK_ENABLED THEN 1 ELSE 0))

(* ------------------ BaseAccessory: services status ------------------- *)

\* What updateModeSwitches and updateFanLevelSwitches push to the switch of
\* each option: (current value === option value) && isPowerOn().
modeSwitchesPushed ==
  {<<"modeControlService", mode,
     IF getPropertyValue("mode") = mode /\ isPowerOn THEN 1 ELSE 0>> :
       mode \in modes}

fanLevelSwitchesPushed ==
  {<<"fanLevelControlService", level,
     IF getPropertyValue("fan_level") = level /\ isPowerOn THEN 1 ELSE 0>> :
       level \in fanLevels}

\* What updateDeviceStatus pushes to the buzzer switch: isBuzzerOn().
buzzerServicePushed ==
  {<<"buzzerService", 0,
     IF isMiotDeviceConnected THEN isEnabled("buzzer") ELSE 0>>}

\* A status update: it reads the Device and pushes, and changes nothing.
statusUpdate(opname, deviceMethods, pushes) ==
  /\ last' = [NoStep EXCEPT !.op = opname, !.device = deviceMethods,
                !.pushed = pushes, !.outcome = "returned"]
  /\ UNCHANGED <<properties, value, miioDevice, deviceId, created, destroyed,
                 setupRuns, inflight>>

\* updateModeSwitches, also run by the timer setModeSwitchOn starts.
updateModeSwitches ==
  statusUpdate("updateModeSwitches", <<"getMode", "isPowerOn">>,
               modeSwitchesPushed)

\* updateFanLevelSwitches, also run by the timer setFanLevelSwitchOn starts.
updateFanLevelSwitches ==
  statusUpdate("updateFanLevelSwitches", <<"getFanLevel", "isPowerOn">>,
               fanLevelSwitchesPushed)

\* updateDeviceStatus, called on a device status update: the services of
\* this device are the buzzer switch and the two switch groups.
updateDeviceStatus ==
  statusUpdate("updateDeviceStatus",
               (IF isMiotDeviceConnected THEN <<"isBuzzerEnabled">> ELSE <<>>)
                 \o <<"getMode", "isPowerOn", "getFanLevel", "isPowerOn">>,
               buzzerServicePushed \cup modeSwitchesPushed
                 \cup fanLevelSwitchesPushed)

\* The handlers the host platform invokes, by kind.
SetterHandlers ==
  {"setBuzzerOn", "setLedOn", "setLedBrightness", "setShutdownTimerOn",
   "setShutdownTimerBrightness", "setModeSwitchOn", "setFanLevelSwitchOn",
   "setLockPhysicalControlsState"}

GetterHandlers ==
  {"isBuzzerOn", "isLedOn", "getLedBrightness", "isShutdownTimerOn",
   "getShutdownTimerBrightness", "isModeSwitchOn", "isFanLevelSwitchOn",
   "getCurrentTemperature", "getCurrentRelativeHumidity",
   "getLockPhysicalControlsState"}

\* The accessory over its Device: the host platform invokes the handlers,
\* the platform plugin attaches and detaches the transport and asks for
\* status updates, the transport completes the calls in flight.
NextAccessory ==
  \/ updateMiioDevice
  \/ disconnectAndDestroyMiioDevice
  \/ Complete
  \/ isBuzzerOn
  \/ setBuzzerOn
  \/ isLedOn
  \/ setLedOn
  \/ getLedBrightness
  \/ setLedBrightness
  \/ isShutdownTimerOn
  \/ setShutdownTimerOn
  \/ getShutdownTimerBrightness
  \/ setShutdownTimerBrightness
  \/ isModeSwitchOn
  \/ setModeSwitchOn
  \/ isFanLevelSwitchOn
  \/ setFanLevelSwitchOn
  \/ getCurrentTemperature
  \/ getCurrentRelativeHumidity
  \/ getLockPhysicalControlsState
  \/ setLockPhysicalControlsState
  \/ updateDeviceStatus
  \/ updateModeSwitches
  \/ updateFanLevelSwitches

SpecAccessory == Init /\ [][NextAccessory]_vars

(* ---------------------- a configured device id ------------------------ *)

\* A device id given in the configuration (the deviceId argument of the
\* constructor).
ConfiguredDid == 500

\* The constructor with or without a configured device id.
InitConfigured ==
  /\ properties = PropNames
  /\ value = [p \in PropSet |-> 0]
  /\ miioDevice = Undefined
  /\ deviceId \in {NoDid, ConfiguredDid}
  /\ created = 0
  /\ destroyed = {}
  /\ setupRuns = 0
  /\ inflight = <<>>
  /\ last = NoStep

\* Attach, detach and polling, with the transport completing the reads.
NextSetup ==
  \/ updateMiioDevice
  \/ disconnectAndDestroyMiioDevice
  \/ pollProperties
  \/ Complete

SpecSetup == InitConfigured /\ [][NextSetup]_vars

(* ------------------------------ claims -------------------------------- *)

\* C1: over any sequence of attach and detach operations setupDevice runs
\* only on the first attach, so it never runs a second time.
C1_SetupOnlyOnFirstAttach == setupRuns <= 1

\* C2: when the then handler of a single-property write has run,
\* getPropertyValue of that property is the written value, and the handler
\* emitted exactly one property-updated event, carrying that property.
C2_WriteSuccess ==
  last.op = "setProperty.then" =>
    /\ getPropertyValue(last.prop) = last.value
    /\ last.emits = <<last.prop>>
    /\ last.outcome = "resolved"

\* A write of power = 1 has completed while a batched read is still in flight.
C2_Witness ==
  /\ last.op = "setProperty.then"
  /\ last.prop = "power"
  /\ getPropertyValue("power") = 1
  /\ \E i \in 1..Len(inflight) : inflight[i].op = "requestAllProperties"

\* C3: the catch handler of a single-property write leaves every cached
\* value as it was, emits no event, and settles the returned promise as
\* resolved.
C3_WriteFailure ==
  [][last'.op = "setProperty.catch" =>
       /\ value' = value
       /\ last'.emits = <<>>
       /\ last'.outcome = "resolved"]_vars

\* A write of power was rejected by the transport; the cache still holds 0.
C3_Witness ==
  /\ last.op = "setProperty.catch"
  /\ last.prop = "power"
  /\ getPropertyValue("power") = 0

\* C4: for a batched read in flight with N keys and every result array of
\* length N, the then handler gives the i-th key the value of slot i when
\* the slot's code is 0 and records it in the result; a slot with another
\* code leaves the i-th key's cached value unchanged and out of the result;
\* properties that are no key keep their values.
C4_PositionalRead ==
  \A j \in 1..Len(inflight) :
    inflight[j].op = "requestAllProperties" =>
      LET keys == inflight[j].keys IN
      \A result \in Responses(keys) :
        Len(result) = Len(keys) =>
          LET acc == applyResult([val |-> value, res |-> {}, thrown |-> FALSE],
                                 keys, result, 1)
          IN /\ ~acc.thrown
             /\ \A i \in 1..Len(keys) :
                  IF result[i].code = 0
                  THEN /\ acc.val[keys[i]] = result[i].value
                       /\ <<keys[i], result[i].value>> \in acc.res
                  ELSE /\ acc.val[keys[i]] = value[keys[i]]
                       /\ \A e \in acc.res : e[1] # keys[i]
             /\ \A p \in PropSet :
                  (\A i \in 1..Len(keys) : keys[i] # p) => acc.val[p] = value[p]
             /\ \A e \in acc.res : \E i \in 1..Len(keys) : e = <<keys[i], result[i].value>>

\* A batched read of the two readable properties completed with a result of
\* length 2 that changed fan_level and left power at its initial value.
C4_Witness ==
  /\ last.op = "requestAllProperties.then"
  /\ last.n = Len(getAllReadableProps)
  /\ Len(getAllReadableProps) = 2
  /\ Len(properties) = 3
  /\ last.outcome = "resolved"
  /\ getPropertyValue("fan_level") = MaxVal
  /\ getPropertyValue("power") = 0

\* C5: setPropertyValue on a property with a value range hands setProperty
\* a value inside the range: the maximum for a value above it, the minimum
\* for a value below it, the value itself otherwise; the request put on the
\* wire carries that value.
C5_Clamp ==
  (last.op = "setPropertyValue" /\ last.prop # NoProp
     /\ Len(getValueRange(last.prop)) > 1) =>
    LET low == getValueRange(last.prop)[1]
        high == getValueRange(last.prop)[2]
    IN /\ last.value \in low..high
       /\ last.raw > high => last.value = high
       /\ last.raw < low => last.value = low
       /\ last.raw \in low..high => last.value = last.raw
       /\ last.ncalls = 1 =>
            inflight[Len(inflight)].params[1].value = last.value

\* setPropertyValue('fan_level', MaxVal), above the maximum 2: 2 was written.
C5_Witness ==
  /\ last.op = "setPropertyValue"
  /\ last.prop = "fan_level"
  /\ last.raw = MaxVal
  /\ last.value = 2
  /\ last.ncalls = 1

\* C6: setPropertyValue whose clamped value equals the cached value invokes
\* no write and no transport call; with a different value it invokes
\* setProperty exactly once, which reaches the transport once when the
\* device is connected (and not at all when it is not).
C6_Idempotent ==
  (last.op = "setPropertyValue" /\ last.prop # NoProp) =>
    IF last.value = getPropertyValue(last.prop)
    THEN last.writes = 0 /\ last.ncalls = 0
    ELSE last.writes = 1 /\ last.ncalls = (IF isConnected THEN 1 ELSE 0)

\* setPropertyValue('fan_level', 0) on a connected device whose cached
\* fan_level is 1: the clamped value is the cached one and nothing is sent.
C6_Witness ==
  /\ last.op = "setPropertyValue"
  /\ last.prop = "fan_level"
  /\ last.raw = 0
  /\ getPropertyValue("fan_level") = 1
  /\ isConnected
  /\ last.ncalls = 0

\* C7: pollProperties without a handle returns a rejected promise with a
\* connectivity error and leaves the calls in flight as they are; with a
\* handle it adds exactly one call, the batched get_properties read of all
\* readable properties.
C7_Poll ==
  [][last'.op = "pollProperties" =>
       IF ~isConnected
       THEN /\ inflight' = inflight
            /\ last'.ncalls = 0
            /\ last'.outcome = "rejected"
            /\ last'.error = "Device not connected"
       ELSE /\ Len(inflight') = Len(inflight) + 1
            /\ SubSeq(inflight', 1, Len(inflight)) = inflight
            /\ inflight'[Len(inflight')].op = "requestAllProperties"
            /\ inflight'[Len(inflight')].cmd = "get_properties"
            /\ inflight'[Len(inflight')].keys = getAllReadableProps
            /\ Len(inflight'[Len(inflight')].params) = Len(getAllReadableProps)
            /\ last'.ncalls = 1
            /\ last'.outcome = "pending"]_vars

\* pollProperties on a device that was never given a handle.
C7_Witness ==
  /\ last.op = "pollProperties"
  /\ created = 0
  /\ last.outcome = "rejected"

\* C8: requestAllProperties without a handle returns a rejected promise and
\* makes no transport call.
C8_RequestAllRejects ==
  (last.op = "requestAllProperties" /\ ~isConnected) =>
    last.outcome = "rejected" /\ last.ncalls = 0

\* C9: setProperty without a handle, or with an absent prop, returns a
\* rejected promise, makes no transport call and emits nothing.
C9_SetPropertyFailsFast ==
  (last.op = "setProperty" /\ last.error # "") =>
    last.outcome = "rejected" /\ last.ncalls = 0 /\ last.emits = <<>>

\* C10: the handle is absent after construction and after
\* disconnectAndDestroyMiioDevice, present after updateMiioDevice, and only
\* these two methods change whether (and which) handle is held.
C10_Connectivity ==
  [][/\ last.op = "constructor" => ~isConnected
     /\ last'.op = "disconnectAndDestroyMiioDevice" => ~isConnected'
     /\ last'.op = "updateMiioDevice" => isConnected'
     /\ miioDevice' # miioDevice =>
          last'.op \in {"updateMiioDevice", "disconnectAndDestroyMiioDevice"}]_vars

\* The handle was dropped while a call issued on it is still in flight.
C10_Witness ==
  /\ last.op = "disconnectAndDestroyMiioDevice"
  /\ ~isConnected
  /\ created >= 1
  /\ Len(inflight) > 0

\* C11: every read handler that changes a property's cached value (the
\* handlers of a requestAllProperties batch included) emits a
\* property-updated event carrying that property.
C11_ReadNotifies ==
  [][last'.op \in {"requestAllProperties.then", "doInitialPropertiesFetch.then",
                   "doInitialPropertiesFetch.catch", "requestProperty.then"} =>
       \A p \in PropSet :
         value'[p] # value[p] =>
           \E k \in 1..Len(last'.emits) : last'.emits[k] = p]_vars

\* C12: addProperty given no name, no siid or no piid registers nothing: the
\* registry and the cached values stay as they were; a name is
\* retrievable through hasProperty after an addProperty step only if it was
\* retrievable before or this call supplied name, siid and piid; and a
\* registration never removes a name.
C12_AddProperty ==
  [][last'.op = "addProperty" =>
       /\ (last'.prop = NoProp \/ last'.siid = Undefined \/ last'.piid = Undefined
             \/ last'.error # "") =>
            (properties' = properties /\ value' = value)
       /\ \A name \in PropSet :
            (\E i \in 1..Len(properties') : properties'[i] = name) =>
              \/ hasProperty(name)
              \/ /\ last'.prop = name
                 /\ last'.siid # Undefined
                 /\ last'.piid # Undefined
                 /\ last'.error = ""
       /\ \A name \in PropSet :
            hasProperty(name) => \E i \in 1..Len(properties') : properties'[i] = name
       /\ (last'.error = "" /\ last'.prop # NoProp) =>
            \E i \in 1..Len(properties') : properties'[i] = last'.prop]_vars

\* addProperty('power', undefined, 1) after another property was registered:
\* power is not retrievable.
C12_Witness ==
  /\ last.op = "addProperty"
  /\ last.prop = "power"
  /\ last.siid = Undefined
  /\ last.piid = PropPiid("power")
  /\ ~hasProperty("power")
  /\ hasProperty("fan_level")

\* C13: no step of sendCommnd (the call itself, its then handler, its catch
\* handler) changes a cached value or emits a property-updated event; called
\* without a handle or with an absent prop it puts no call on the transport.
C13_SendCommandNoEffect ==
  [][last'.op \in {"sendCommnd", "sendCommnd.then", "sendCommnd.catch"} =>
       /\ value' = value
       /\ last'.emits = <<>>
       /\ (last'.op = "sendCommnd" /\ (~isConnected \/ last'.error # "")) =>
            (inflight' = inflight /\ last'.ncalls = 0)]_vars

\* The command buzzer = 1 was acknowledged with code 0 on a connected
\* device: the cached buzzer value is still the initial one.
C13_Witness ==
  /\ last.op = "sendCommnd.then"
  /\ last.prop = "buzzer"
  /\ last.code = 0
  /\ isConnected
  /\ getPropertyValue("buzzer") = 0

\* C14: while the device is disconnected every setter handler of the
\* accessory throws the SERVICE_COMMUNICATION_FAILURE error and invokes no
\* Device method (no transport call, no cache change), and every getter
\* handler returns its safe default (false, 0, CONTROL_LOCK_DISABLED)
\* without invoking a Device method.
C14_DisconnectedHandlers ==
  [][~isMiotDeviceConnected =>
       /\ last'.op \in SetterHandlers =>
            /\ last'.outcome = "thrown"
            /\ last'.error = SERVICE_COMMUNICATION_FAILURE
            /\ last'.device = <<>>
            /\ last'.ncalls = 0
            /\ inflight' = inflight
            /\ value' = value
       /\ last'.op \in GetterHandlers =>
            /\ last'.outcome = "returned"
            /\ last'.device = <<>>
            /\ last'.ret = (IF last'.op = "getLockPhysicalControlsState"
                            THEN CONTROL_LOCK_DISABLED ELSE 0)
            /\ value' = value]_vars

\* setFanLevelSwitchOn after the transport was detached, with the cached
\* power on: the handler threw.
C14_Witness ==
  /\ last.op = "setFanLevelSwitchOn"
  /\ ~isMiotDeviceConnected
  /\ created >= 1
  /\ isPowerOn
  /\ last.outcome = "thrown"

\* C15: while the device holds no handle, the completion of a call that is
\* still in flight (issued before the teardown) changes no cached value and
\* emits no property-updated event.
C15_NoUpdateAfterTeardown ==
  [][(~isConnected /\ Len(inflight') < Len(inflight)) =>
       (value' = value /\ last'.emits = <<>>)]_vars

\* C16: with a batched read and a write of property p outstanding together,
\* in either order of issue: if the read completes (code 0 for p) and then
\* the write, p holds the written value; if the write completes and then
\* the read, p holds the value of the read's slot.
C16_LastCompletionWins ==
  \A i, j \in 1..Len(inflight) :
    (inflight[i].op = "requestAllProperties" /\ inflight[j].op = "setProperty") =>
      LET keys == inflight[i].keys
          p == inflight[j].prop
          v == inflight[j].params[1].value
          start == [val |-> value, res |-> {}, thrown |-> FALSE]
      IN \A result \in Responses(keys) :
           \A k \in 1..Len(keys) :
             (keys[k] = p /\ k <= Len(result) /\ result[k].code = 0
                /\ ~applyResult(start, keys, result, 1).thrown) =>
               LET readThenWrite ==
                     setProperty_thenValue(
                       applyResult(start, keys, result, 1).val, p, v)
                   writeThenRead ==
                     applyResult(
                       [start EXCEPT !.val = setProperty_thenValue(value, p, v)],
                       keys, result, 1).val
               IN /\ readThenWrite[p] = v
                  /\ writeThenRead[p] = result[k].value

\* The initial batched read, issued first, and a later write of power = 1
\* are both outstanding; the cache still holds power = 0.
C16_Witness ==
  /\ Len(inflight) = 2
  /\ inflight[1].op = "requestAllProperties"
  /\ inflight[1].initial
  /\ inflight[2].op = "setProperty"
  /\ inflight[2].prop = "power"
  /\ inflight[2].params[1].value = 1
  /\ getPropertyValue("power") = 0

\* C17: two setPropertyValue calls in a row for the same property with the
\* same value, the second made while the write of the first is still in
\* flight, do not both put a write on the transport.
C17_NoDuplicateWriteInFlight ==
  [][~(/\ last.op = "setPropertyValue"
       /\ last.ncalls = 1
       /\ last'.op = "setPropertyValue"
       /\ last'.prop = last.prop
       /\ last'.value = last.value
       /\ last'.ncalls = 1
       /\ Len(inflight') = Len(inflight) + 1)]_vars

\* C18: for a read in flight, a response slot with code 0 and no value is
\* skipped like a slot with a nonzero code: updatePropertyValueFromDevice
\* leaves the cached values and the result object as they were.
C18_UndefinedValueSkipped ==
  \A j \in 1..Len(inflight) :
    inflight[j].op \in {"requestAllProperties", "requestProperty"} =>
      \A k \in 1..Len(inflight[j].keys) :
        LET start == [val |-> value, res |-> {}, thrown |-> FALSE] IN
        updatePropertyValueFromDevice(start, inflight[j].keys[k], UndefinedSlot)
          = start

\* C19: the then handler of requestAllProperties resolves with a result
\* object for every result array the transport delivers, shorter or longer
\* than the request included; the promise is never rejected by the handler
\* itself.
C19_ResolvesForEveryResponse ==
  (last.op \in {"requestAllProperties.then", "doInitialPropertiesFetch.then",
                "doInitialPropertiesFetch.catch"}
     /\ last.error # "transport") =>
    (last.error = "" /\ last.outcome = "resolved"
       /\ last.op # "doInitialPropertiesFetch.catch")

\* C20: every handle the Device has held is the current handle or has had
\* destroy() called on it.
C20_OldHandlesDestroyed ==
  \A h \in 1..created : h = miioDevice \/ h \in destroyed

\* C21: pollProperties, requestAllProperties, requestProperty, setProperty,
\* setPropertyValue and sendCommnd, invoked while the Device holds no handle,
\* put no call on the transport, and the promise-returning ones among them
\* end with a failure outcome (a rejected promise).
C21_UnboundFailsWithoutCall ==
  (~isConnected
     /\ last.op \in {"pollProperties", "requestAllProperties", "requestProperty",
                     "setProperty", "setPropertyValue", "sendCommnd"}) =>
    /\ last.ncalls = 0
    /\ last.op # "setPropertyValue" => last.outcome = "rejected"

\* C22: the first attach leaves the device connected and set up; when the
\* transport rejects the initial fetch, the catch handler of
\* doInitialPropertiesFetch absorbs it: the promise chain ends resolved, no
\* cached value changes, and handle, device id and setup count stay.
C22_InitialFetchFailureSwallowed ==
  [][/\ (last'.op = "updateMiioDevice" /\ setupRuns = 0) =>
          (isConnected' /\ setupRuns' = 1 /\ last'.outcome # "rejected")
     /\ (last'.op = "doInitialPropertiesFetch.catch"
           /\ last'.error = "transport") =>
          /\ last'.outcome = "resolved"
          /\ value' = value
          /\ miioDevice' = miioDevice
          /\ deviceId' = deviceId
          /\ setupRuns' = setupRuns]_vars

\* The initial fetch of the first attach was rejected by the transport; the
\* device is still connected and set up.
C22_Witness ==
  /\ last.op = "doInitialPropertiesFetch.catch"
  /\ last.error = "transport"
  /\ isConnected
  /\ created = 1
  /\ setupRuns = 1

\* C23: a run of setupDevice resolves the device id first (the configured
\* id if there is one, else the id of the handle), then runs the
\* device-specific hook, then issues the initial batched read, each once;
\* the read is addressed with the resolved id and is still in flight when
\* setup returns.
C23_SetupOrder ==
  [][(last'.op = "updateMiioDevice" /\ last'.setup # <<>>) =>
       /\ last'.setup = <<"deviceId", "deviceSpecificSetup",
                          "doInitialPropertiesFetch">>
       /\ deviceId' = (IF deviceId # NoDid THEN deviceId
                       ELSE HandleDid(miioDevice'))
       /\ setupRuns' = setupRuns + 1
       /\ last'.ncalls = 1
       /\ inflight' = Append(inflight, inflight'[Len(inflight')])
       /\ LET c == inflight'[Len(inflight')] IN
          /\ c.op = "requestAllProperties"
          /\ c.initial
          /\ Len(c.params) = Len(getAllReadableProps)
          /\ \A k \in 1..Len(c.params) : c.params[k].did = deviceId']_vars

\* Setup ran on a device with a configured id: the id was kept and the
\* initial read, addressed with it, is in flight.
C23_Witness ==
  /\ last.op = "updateMiioDevice"
  /\ last.setup # <<>>
  /\ deviceId = ConfiguredDid
  /\ Len(inflight) >= 1
  /\ inflight[Len(inflight)].initial
  /\ inflight[Len(inflight)].params[1].did = ConfiguredDid

\* C24: requestProperty emits a property-updated event only when the read
\* stored a value: its then handler emits nothing for a response item with a
\* nonzero code, its catch handler emits nothing, and called with an absent
\* or write-only prop or without a handle it makes no transport call.
C24_RequestPropertyNotifiesOnUpdate ==
  /\ (last.op = "requestProperty.then" /\ last.n > 0 /\ last.code # 0) =>
       last.emits = <<>>
  /\ last.op = "requestProperty.catch" => last.emits = <<>>
  /\ (last.op = "requestProperty" /\ last.error # "") =>
       (last.ncalls = 0 /\ last.emits = <<>>)

\* C25: the then handler of a single-property write whose response item
\* carries a nonzero status code leaves every cached value unchanged and
\* emits no event.
C25_WriteNeedsCodeZero ==
  [][(last'.op = "setProperty.then" /\ last'.code # 0) =>
       (value' = value /\ last'.emits = <<>>)]_vars

\* C26: what updateDeviceStatus, updateModeSwitches and
\* updateFanLevelSwitches push to a mode or fan-level switch is what the
\* getter handler of that switch returns in the same state; every switch is
\* pushed as off when the device is disconnected or powered off, and at most
\* one switch of a group is pushed as on.
C26_PushedEqualsGetter ==
  last.op \in {"updateDeviceStatus", "updateModeSwitches",
               "updateFanLevelSwitches"} =>
    \A e \in last.pushed :
      /\ e[1] = "modeControlService" => e[3] = isModeSwitchOnValue(e[2])
      /\ e[1] = "fanLevelControlService" => e[3] = isFanLevelSwitchOnValue(e[2])
      /\ (e[1] # "buzzerService" /\ (~isMiotDeviceConnected \/ ~isPowerOn)) =>
           e[3] = 0
      /\ \A f \in last.pushed :
           (f[1] = e[1] /\ f[3] = 1 /\ e[3] = 1) => f[2] = e[2]

====
